---- MODULE Spec2Model ----
(***************************************************************************)
(* The timestamp service of main.go: one stored *time.Time guarded by the   *)
(* capacity-1 channel l, the two HTTP handlers that decode / encode it, and *)
(* the client helpers that talk to them.                                    *)
(*                                                                          *)
(* Integers: the model checker computes with 32-bit integers, so Go's int64 *)
(* is modelled at width 32: values range over MinInt64..MaxInt64 below and  *)
(* the arithmetic of time.Unix / Time.Unix wraps modulo 2^32 the way the    *)
(* real one wraps modulo 2^64.  The epoch offset is the real constant       *)
(* reduced modulo 2^32.  Every literal of the program (1622366082 and the   *)
(* test inputs) fits unchanged.                                             *)
(*                                                                          *)
(* Text: a string is a sequence of one-character strings; the quoted key    *)
(* "timestamp", the quoted strings of the Response type and the words null  *)
(* and true are single symbols.                                             *)
(***************************************************************************)
EXTENDS Integers, Sequences, FiniteSets, TLC

(***************************************************************************)
(* Bounds of the model.                                                     *)
(***************************************************************************)
\* number of requests issued in a run (each one client call and its handler)
NReqs == 3
\* longest text the test helper setTimestampCallStr is given
MaxRawLen == 3

Reqs == 1..NReqs

(***************************************************************************)
(* int64 (at width 32) and the time package.                                *)
(***************************************************************************)
MaxInt64 == 2147483647
MinInt64 == (-MaxInt64) - 1

\* const initialUnixTimestamp int64 = 1622366082
initialUnixTimestamp == 1622366082

\* time.unixToInternal = 62135596800 seconds, modulo 2^32
unixToInternal == 2006054656

\* a + b with b >= 0, wrapping like Go's signed addition
AddWrap(a, b) ==
    IF a > MaxInt64 - b
    THEN ((a - MaxInt64) - 1) + ((b - MaxInt64) - 1)
    ELSE a + b

\* a - b with b >= 0, wrapping like Go's signed subtraction
SubWrap(a, b) ==
    IF a < MinInt64 + b
    THEN ((a + MaxInt64) + 1) + ((MaxInt64 - b) + 1)
    ELSE a - b

\* time.Unix that saturates instead of wrapping
TimeUnixSaturating(sec) ==
    [wall |-> 0,
     ext  |-> IF sec > MaxInt64 - unixToInternal THEN MaxInt64
              ELSE sec + unixToInternal]

\* time.Unix(sec, 0): Time{wall: 0, ext: sec + unixToInternal}
TimeUnix(sec) == [wall |-> 0, ext |-> AddWrap(sec, unixToInternal)]

\* Unix() that forgets the epoch offset
UnixOfNoOffset(t) == t.ext

\* (Time).Unix(): t.sec() + internalToUnix
UnixOf(t) == SubWrap(t.ext, unixToInternal)

(***************************************************************************)
(* Decimal formatting (fmt %d, the JSON encoder of an int64) and parsing    *)
(* (strconv.ParseInt as the JSON decoder calls it).                         *)
(***************************************************************************)
Digit == <<"0", "1", "2", "3", "4", "5", "6", "7", "8", "9">>
DigitSet == {Digit[i] : i \in 1..10}
DigitVal(c) == CHOOSE d \in 0..9 : Digit[d + 1] = c

RECURSIVE FormatNat(_)
FormatNat(n) ==
    IF n < 10 THEN <<Digit[n + 1]>>
    ELSE FormatNat(n \div 10) \o <<Digit[(n % 10) + 1]>>

\* strconv.FormatInt(x, 10): a sign and the digits of the magnitude.  The
\* magnitude of the smallest value is not an int64, so a negative x is
\* split into its last digit and the rest before it is negated.
FormatInt(x) ==
    IF x >= 0 THEN FormatNat(x)
    ELSE LET m    == x % 10
             last == (10 - m) % 10
             rest == IF m = 0 THEN -(x \div 10) ELSE -((x \div 10) + 1)
         IN  <<"-">> \o (IF rest = 0 THEN <<>> ELSE FormatNat(rest))
                     \o <<Digit[last + 1]>>

\* least q with 10 * q >= y
CeilDiv10(y) == (y \div 10) + (IF y % 10 = 0 THEN 0 ELSE 1)

\* The digits ds accumulated as a non-positive number; ok is FALSE once the
\* magnitude leaves the int64 range (strconv's ErrRange).
RECURSIVE AccDigits(_, _, _)
AccDigits(ds, i, acc) ==
    IF i > Len(ds) THEN [ok |-> TRUE, neg |-> acc]
    ELSE LET d == DigitVal(ds[i])
         IN  IF acc < CeilDiv10(MinInt64 + d)
             THEN [ok |-> FALSE, neg |-> 0]
             ELSE AccDigits(ds, i + 1, (acc * 10) - d)

\* strconv.ParseInt(s, 10, 64): [ok, val]
ParseInt(s) ==
    LET isNeg == Len(s) > 0 /\ s[1] = "-"
        ds    == IF isNeg THEN Tail(s) ELSE s
        fail  == [ok |-> FALSE, val |-> 0]
    IN  IF Len(ds) = 0 \/ \E i \in 1..Len(ds) : ds[i] \notin DigitSet
        THEN fail
        ELSE LET a == AccDigits(ds, 1, 0)
             IN  IF ~a.ok THEN fail
                 ELSE IF isNeg THEN [ok |-> TRUE, val |-> a.neg]
                 ELSE IF a.neg = MinInt64 THEN fail
                 ELSE [ok |-> TRUE, val |-> -a.neg]

(***************************************************************************)
(* encoding/json as the program uses it: the syntax check (checkValid) and  *)
(* the decoding of a value into a TimestampJson.                            *)
(***************************************************************************)
KeyTimestamp == "\"timestamp\""
KeyResponse  == "\"response\""
StrOK        == "\"OK\""
StrParseErr  == "\"Unable to parse POST payload as a valid json value.\""

IsSpace(c) == c \in {" ", "\n"}

RECURSIVE SkipSpace(_, _)
SkipSpace(s, i) ==
    IF i <= Len(s) /\ IsSpace(s[i]) THEN SkipSpace(s, i + 1) ELSE i

\* The number states of the scanner (stateNeg, state0, state1, stateDot,
\* stateDot0, stateE, stateESign, stateE0), entered at position i.  The
\* result is the position after the number, or 0 where the scanner reports
\* a syntax error inside it.
RECURSIVE ScanNum(_, _, _)
ScanNum(s, i, st) ==
    LET c     == IF i <= Len(s) THEN s[i] ELSE "EOF"
        digit == c \in DigitSet
    IN  CASE st = "neg" ->
               IF c = "0" THEN ScanNum(s, i + 1, "0")
               ELSE IF digit THEN ScanNum(s, i + 1, "1")
               ELSE 0
          [] st = "1" /\ digit -> ScanNum(s, i + 1, "1")
          [] st \in {"0", "1"} /\ ~(st = "1" /\ digit) ->
               IF c = "." THEN ScanNum(s, i + 1, "dot")
               ELSE IF c \in {"e", "E"} THEN ScanNum(s, i + 1, "e")
               ELSE i
          [] st = "dot" ->
               IF digit THEN ScanNum(s, i + 1, "dot0") ELSE 0
          [] st = "dot0" ->
               IF digit THEN ScanNum(s, i + 1, "dot0")
               ELSE IF c \in {"e", "E"} THEN ScanNum(s, i + 1, "e")
               ELSE i
          [] st = "e" ->
               IF c \in {"+", "-"} THEN ScanNum(s, i + 1, "esign")
               ELSE IF digit THEN ScanNum(s, i + 1, "e0")
               ELSE 0
          [] st = "esign" ->
               IF digit THEN ScanNum(s, i + 1, "e0") ELSE 0
          [] st = "e0" ->
               IF digit THEN ScanNum(s, i + 1, "e0") ELSE i

\* stateBeginValue at position i: the position after the value, 0 on a
\* syntax error.  The values are numbers and the words null and true; any
\* other character (a letter, a comma, the end of the text) is an error.
ValueEnd(s, i) ==
    IF i > Len(s) THEN 0
    ELSE IF s[i] \in {"null", "true"} THEN i + 1
    ELSE IF s[i] = "-" THEN ScanNum(s, i + 1, "neg")
    ELSE IF s[i] = "0" THEN ScanNum(s, i + 1, "0")
    ELSE IF s[i] \in DigitSet THEN ScanNum(s, i + 1, "1")
    ELSE 0

SubText(s, a, b) == [k \in 1..(b - a) |-> s[a + k - 1]]

BadSyntax == [ok |-> FALSE, members |-> <<>>]

\* The members of an object, scanned from position i (after "{" or ",").
RECURSIVE ScanMembers(_, _, _)
ScanMembers(s, i, acc) ==
    LET k == SkipSpace(s, i)
    IN  IF k > Len(s) \/ s[k] \notin {KeyTimestamp, KeyResponse}
        THEN BadSyntax
        ELSE LET c == SkipSpace(s, k + 1)
             IN  IF c > Len(s) \/ s[c] # ":" THEN BadSyntax
                 ELSE LET v == SkipSpace(s, c + 1)
                          e == ValueEnd(s, v)
                          n == IF e = 0 THEN 0 ELSE SkipSpace(s, e)
                          m == IF e = 0 THEN <<>>
                               ELSE Append(acc, [key  |-> s[k],
                                                 text |-> SubText(s, v, e)])
                      IN  IF e = 0 \/ n > Len(s) THEN BadSyntax
                          ELSE IF s[n] = "," THEN ScanMembers(s, n + 1, m)
                          ELSE IF s[n] = "}"
                               THEN IF SkipSpace(s, n + 1) = Len(s) + 1
                                    THEN [ok |-> TRUE, members |-> m]
                                    ELSE BadSyntax
                          ELSE BadSyntax

\* checkValid and the split of an object into members.  A text that is one
\* scalar value is reported with the member key "" .
ScanJSON(s) ==
    LET i == SkipSpace(s, 1)
    IN  IF i > Len(s) THEN BadSyntax
        ELSE IF s[i] = "{"
        THEN LET k == SkipSpace(s, i + 1)
             IN  IF k <= Len(s) /\ s[k] = "}"
                 THEN IF SkipSpace(s, k + 1) = Len(s) + 1
                      THEN [ok |-> TRUE, members |-> <<>>]
                      ELSE BadSyntax
                 ELSE ScanMembers(s, i + 1, <<>>)
        ELSE LET e == ValueEnd(s, i)
             IN  IF e # 0 /\ SkipSpace(s, e) = Len(s) + 1
                 THEN [ok |-> TRUE,
                       members |-> <<[key |-> "", text |-> SubText(s, i, e)]>>]
                 ELSE BadSyntax

\* One value stored into the int64 field Timestamp (literalStore): null has
\* no effect, a number must pass strconv.ParseInt, anything else is an
\* UnmarshalTypeError.  The decoder saves the first error and goes on.
StoreField(cur, text) ==
    IF text = <<"null">> THEN cur
    ELSE LET p == ParseInt(text)
         IN  IF text[1] \in DigitSet \cup {"-"} /\ p.ok
             THEN [err |-> cur.err, Timestamp |-> p.val]
             ELSE [err |-> TRUE, Timestamp |-> cur.Timestamp]

RECURSIVE StoreMembers(_, _, _)
StoreMembers(ms, i, cur) ==
    IF i > Len(ms) THEN cur
    ELSE StoreMembers(ms, i + 1,
                      IF ms[i].key = KeyTimestamp
                      THEN StoreField(cur, ms[i].text)
                      ELSE cur)

\* json.Unmarshal(b, &raw) with raw a zero TimestampJson: [err, Timestamp]
UnmarshalTimestampJson(b) ==
    LET sc   == ScanJSON(b)
        zero == [err |-> FALSE, Timestamp |-> 0]
    IN  IF ~sc.ok THEN [err |-> TRUE, Timestamp |-> 0]
        ELSE IF Len(sc.members) = 1 /\ sc.members[1].key = ""
        THEN IF sc.members[1].text = <<"null">> THEN zero
             ELSE [err |-> TRUE, Timestamp |-> 0]
        ELSE StoreMembers(sc.members, 1, zero)

\* json.Marshal(TimestampJson{Timestamp: sec}) followed by the Encoder's
\* newline
EncodeTimestampJson(sec) ==
    <<"{", KeyTimestamp, ":">> \o FormatInt(sec) \o <<"}", "\n">>

\* json.NewEncoder(w).Encode(Response{msg}) / json.Marshal(Response{msg})
EncodeResponse(msg) == <<"{", KeyResponse, ":", msg, "}", "\n">>

\* fmt.Sprintf("{\"timestamp\" : %v}", text)
SprintfBody(text) == <<"{", KeyTimestamp, " ", ":", " ">> \o text \o <<"}">>

(***************************************************************************)
(* Inputs.                                                                  *)
(***************************************************************************)
\* testTimestamps of TestSetAndGet, and the ends of the int64 range and of
\* the range in which sec + unixToInternal does not wrap
Int64Samples ==
    {-1906357250, -100, -50, 0, 25, 75, 1622366082, 1906357250,
     MinInt64, MinInt64 + 1, -1, 1, MaxInt64 - 1, MaxInt64,
     MaxInt64 - unixToInternal, (MaxInt64 - unixToInternal) + 1}

\* testTimestamps of TestSetAndGetNegative
NegativeTestTexts ==
    { <<"-", "1", "9", "0", "6", "3", "5", "7", "2", ".", "5", "0">>,
      <<"-", "1", "0", ",", "1">>,
      <<"-", "5", "0", "f">>,
      <<"0", "E", "0">>,
      <<"a", "p", "p", "l", "e">>,
      <<"t", "r", "e", "e">>,
      <<"1", "6", "2", "2", "3", "6", "6", "0", "8", "2",
        "f", "r", "u", "i", "t">> }

\* numbers just outside the int64 range
OutOfRangeTexts ==
    { <<"2", "1", "4", "7", "4", "8", "3", "6", "4", "8">>,
      <<"-", "2", "1", "4", "7", "4", "8", "3", "6", "4", "9">>,
      <<"9", "9", "9", "9", "9", "9", "9", "9", "9", "9", "9">> }

RawAlphabet == {"-", "0", "1", ".", "E", ",", "f", "null"}

RECURSIVE TextsUpTo(_)
TextsUpTo(n) ==
    IF n = 0 THEN {<<>>}
    ELSE LET shorter == TextsUpTo(n - 1)
         IN  shorter \cup {Append(t, c) : t \in shorter, c \in RawAlphabet}

\* what the test client hands to setTimestampCallStr
RawTexts == TextsUpTo(MaxRawLen) \cup NegativeTestTexts \cup OutOfRangeTexts

\* what the concurrent clients send
SmallValues == {-100, 0}
SmallRaws   == {<<"a", "p", "p", "l", "e">>}

(***************************************************************************)
(* State.                                                                   *)
(***************************************************************************)
VARIABLES
    l,          \* the channel l: its buffer, capacity 1
    heap,       \* the time.Time values behind the pointers: address -> <<t>>
    data,       \* the package variable data: a Timestamp
    pc,         \* per request: where the client call and its handler are
    call,       \* per request: the client function that issued it
    method,     \* per request: the HTTP method of the request
    ctype,      \* per request: the Content-Type header of the request
    arg,        \* per request: the int64 handed to setTimestampCall
    body,       \* per request: the request body
    cancelled,  \* per request: the request's context has been cancelled
    newData,    \* per request: storeTimestamp's local newData
    ret,        \* per request: the Timestamp getData returned
    status,     \* per request: HTTP status of the response (0: none yet)
    respBody,   \* per request: the response body
    result,     \* per request: what the client function returned
    order,      \* the requests in the order of their access to data
    before,     \* <<q, r>>: q's getData / setData returned before r's began
    listening,  \* http.ListenAndServe has bound the port and accepts
    mainPc,     \* where func main is ("none": main is not what runs)
    stdout      \* what has been printed to the standard output

cellVars == <<l, heap, data>>
reqVars  == <<pc, call, method, ctype, arg, body, cancelled, newData, ret,
              status, respBody, result>>
histVars == <<order, before>>
mainVars == <<listening, mainPc, stdout>>
vars     == <<l, heap, data, pc, call, method, ctype, arg, body, cancelled,
              newData, ret, status, respBody, result, order, before,
              listening, mainPc, stdout>>

\* addresses: 0 is &now, r is the tmp that request r's UnmarshalJSON allocates
Nil     == -1
NowAddr == 0
Addrs   == 0..NReqs

ZeroTimestamp == [timestamp |-> Nil]

\* now initialised to the epoch instead of initialUnixTimestamp
InitHeapEpoch ==
    [a \in Addrs |-> IF a = NowAddr THEN <<TimeUnix(0)>> ELSE <<>>]

\* var now = time.Unix(initialUnixTimestamp, 0); var data = Timestamp{&now}
InitHeap ==
    [a \in Addrs |-> IF a = NowAddr THEN <<TimeUnix(initialUnixTimestamp)>>
                     ELSE <<>>]
InitData == [timestamp |-> NowAddr]

\* var l = make(chan int, 1)
ChanCap == 1

NoResult == [ts |-> <<>>, err |-> FALSE]

\* the package-level variables, and no request issued yet
InitServer ==
    /\ l = <<>>
    /\ heap = InitHeap
    /\ data = InitData
    /\ pc = [r \in Reqs |-> "idle"]
    /\ call = [r \in Reqs |-> "none"]
    /\ method = [r \in Reqs |-> ""]
    /\ ctype = [r \in Reqs |-> ""]
    /\ arg = [r \in Reqs |-> 0]
    /\ body = [r \in Reqs |-> <<>>]
    /\ cancelled = [r \in Reqs |-> FALSE]
    /\ newData = [r \in Reqs |-> ZeroTimestamp]
    /\ ret = [r \in Reqs |-> ZeroTimestamp]
    /\ status = [r \in Reqs |-> 0]
    /\ respBody = [r \in Reqs |-> <<>>]
    /\ result = [r \in Reqs |-> NoResult]
    /\ order = <<>>
    /\ before = {}
    /\ stdout = <<>>

\* The service as the tests and its other clients meet it: it accepts
\* requests, and func main is not what issues them.
Init ==
    /\ InitServer
    /\ listening = TRUE
    /\ mainPc = "none"

\* The answers of the router to a request that no route matches
StatusNotFound         == 404
StatusMethodNotAllowed == 405
NotFoundText           == <<"404 page not found">>

TextPlain == "text/plain"

\* a router whose routes carry no Headers matcher
RouteAnyContentType(m, ct) ==
    IF m = "POST" THEN "storeTimestamp"
    ELSE IF m = "GET" THEN "returnTimestamp"
    ELSE "methodNotAllowed"

\* myRouter on the path /timestamp: a route matches if its method and its
\* Content-Type header both match; if the headers of no route match the
\* answer is 404, if only the methods do not match it is 405
Route(m, ct) ==
    IF ct # TextPlain THEN "notFound"
    ELSE IF m = "POST" THEN "storeTimestamp"
    ELSE IF m = "GET" THEN "returnTimestamp"
    ELSE "methodNotAllowed"

Routed(h) == h \in {"storeTimestamp", "returnTimestamp"}

\* the requests whose getData / setData has returned
CellDone ==
    {q \in Reqs : pc[q] \in {"returnTimestamp_encode", "storeTimestamp_respond",
                             "client_recv", "returned"}
                  /\ (Route(method[q], ctype[q]) = "returnTimestamp"
                      \/ newData[q] # ZeroTimestamp)}

\* requests are numbered in the order in which they are issued
IsNextRequest(r) == pc[r] = "idle" /\ \A q \in Reqs : q < r => pc[q] # "idle"

(***************************************************************************)
(* The client functions, up to the sending of the request.                  *)
(***************************************************************************)
\* Request r is sent.  While the server does not listen the connection is
\* refused and the client function returns the error; otherwise the router
\* hands the request to its handler (returnTimestamp calls getData at once)
\* or answers it itself.
Request(r, fn, m, ct, b) ==
    /\ IsNextRequest(r)
    /\ call' = [call EXCEPT ![r] = fn]
    /\ method' = [method EXCEPT ![r] = m]
    /\ ctype' = [ctype EXCEPT ![r] = ct]
    /\ body' = [body EXCEPT ![r] = b]
    /\ IF listening
       THEN LET h == Route(m, ct)
            IN  /\ pc' = [pc EXCEPT ![r] =
                            IF h = "storeTimestamp" THEN "storeTimestamp"
                            ELSE IF h = "returnTimestamp" THEN "getData_acquire"
                            ELSE "client_recv"]
                /\ status' = [status EXCEPT ![r] =
                                IF h = "notFound" THEN StatusNotFound
                                ELSE IF h = "methodNotAllowed"
                                     THEN StatusMethodNotAllowed
                                ELSE @]
                /\ respBody' = [respBody EXCEPT ![r] =
                                  IF Routed(h) THEN @ ELSE NotFoundText]
                /\ before' = IF h = "returnTimestamp"
                             THEN before \cup {<<q, r>> : q \in CellDone}
                             ELSE before
                /\ UNCHANGED result
       ELSE /\ pc' = [pc EXCEPT ![r] = "refused"]
            /\ result' = [result EXCEPT ![r] = [ts |-> <<>>, err |-> TRUE]]
            /\ UNCHANGED <<status, respBody, before>>
    /\ UNCHANGED <<mainVars, cellVars, cancelled, newData, ret, order>>

Post(r, fn, text) == Request(r, fn, "POST", TextPlain, SprintfBody(text))

\* setTimestampCall(newTimeStamp): POST {"timestamp" : %d} as text/plain
SetTimestampCall(r, x) ==
    /\ Post(r, "setTimestampCall", FormatInt(x))
    /\ arg' = [arg EXCEPT ![r] = x]

\* setTimestampCallStr(newTimeStampRaw): POST {"timestamp" : %v}
SetTimestampCallStr(r, raw) ==
    /\ Post(r, "setTimestampCallStr", raw)
    /\ UNCHANGED arg

\* getTimestampCall(): GET as text/plain, routed to returnTimestamp, which
\* calls getData
GetTimestampCall(r) ==
    /\ Request(r, "getTimestampCall", "GET", TextPlain, <<>>)
    /\ UNCHANGED arg

\* A request of any other client of the service
HttpRequest(r, m, ct, b) ==
    /\ Request(r, "http", m, ct, b)
    /\ UNCHANGED arg

(***************************************************************************)
(* Timestamp's JSON methods.                                                *)
(***************************************************************************)
\* UnmarshalJSON that sets the pointer only if it decoded a second count
\* other than zero
TimestampUnmarshalJSONUnlessZero(t, b, a) ==
    LET raw == UnmarshalTimestampJson(b)
    IN  IF raw.err
        THEN [err |-> TRUE, t |-> t, tmp |-> <<>>]
        ELSE IF raw.Timestamp = 0
        THEN [err |-> FALSE, t |-> t, tmp |-> <<>>]
        ELSE [err |-> FALSE, t |-> [timestamp |-> a],
              tmp |-> <<TimeUnix(raw.Timestamp)>>]

\* (t *Timestamp) UnmarshalJSON(b), tmp being allocated at address a: on an
\* error t is left alone, otherwise t.timestamp = &tmp, tmp = time.Unix(..)
TimestampUnmarshalJSON(t, b, a) ==
    LET raw == UnmarshalTimestampJson(b)
    IN  IF raw.err
        THEN [err |-> TRUE, t |-> t, tmp |-> <<>>]
        ELSE [err |-> FALSE, t |-> [timestamp |-> a],
              tmp |-> <<TimeUnix(raw.Timestamp)>>]

\* (t Timestamp) MarshalJSON(): json.Marshal of t.timestamp.Unix(); the
\* dereference of a nil pointer panics
TimestampMarshalJSON(t, h) ==
    IF t.timestamp = Nil \/ h[t.timestamp] = <<>>
    THEN [panic |-> TRUE, text |-> <<>>]
    ELSE [panic |-> FALSE,
          text |-> EncodeTimestampJson(UnixOf(h[t.timestamp][1]))]

(***************************************************************************)
(* storeTimestamp and setData.                                              *)
(***************************************************************************)
StatusOK == 200
StatusInternalServerError == 500
\* the connection was closed without a response (a handler panicked)
NoResponse == -1

\* storeTimestamp that decodes the body into the shared data itself
StoreDecodeIntoData(r) ==
    /\ pc[r] = "storeTimestamp"
    /\ LET u == TimestampUnmarshalJSON(ZeroTimestamp, body[r], r)
       IN  IF u.err
           THEN /\ status' = [status EXCEPT ![r] = StatusInternalServerError]
                /\ respBody' = [respBody EXCEPT ![r] = EncodeResponse(StrParseErr)]
                /\ pc' = [pc EXCEPT ![r] = "client_recv"]
                /\ UNCHANGED <<heap, data, newData, before>>
           ELSE /\ newData' = [newData EXCEPT ![r] = u.t]
                /\ data' = u.t
                /\ heap' = [heap EXCEPT ![r] = u.tmp]
                /\ pc' = [pc EXCEPT ![r] = "setData_acquire"]
                /\ before' = before \cup {<<q, r>> : q \in CellDone}
                /\ UNCHANGED <<status, respBody>>
    /\ UNCHANGED <<mainVars, l, call, method, ctype, arg, body, cancelled, ret,
                   result, order>>

\* storeTimestamp up to the call of setData: read the body, decode it into
\* newData; on an error answer 500 and return
StoreDecode(r) ==
    /\ pc[r] = "storeTimestamp"
    /\ LET u == TimestampUnmarshalJSON(ZeroTimestamp, body[r], r)
       IN  IF u.err
           THEN /\ status' = [status EXCEPT ![r] = StatusInternalServerError]
                /\ respBody' = [respBody EXCEPT ![r] = EncodeResponse(StrParseErr)]
                /\ pc' = [pc EXCEPT ![r] = "client_recv"]
                /\ UNCHANGED <<heap, newData, before>>
           ELSE /\ newData' = [newData EXCEPT ![r] = u.t]
                /\ heap' = [heap EXCEPT ![r] = u.tmp]
                /\ pc' = [pc EXCEPT ![r] = "setData_acquire"]
                /\ before' = before \cup {<<q, r>> : q \in CellDone}
                /\ UNCHANGED <<status, respBody>>
    /\ UNCHANGED <<mainVars, l, data, call, method, ctype, arg, body, cancelled, ret, result, order>>

\* l <- 1 that does not wait for room in the buffer
AcquireNoBlock(r, at, next) ==
    /\ pc[r] = at
    /\ l' = Append(l, 1)
    /\ pc' = [pc EXCEPT ![r] = next]

\* getData / setData that goes on without the send l <- 1
AcquireSkipped(r, at, next) ==
    /\ pc[r] = at
    /\ l' = l
    /\ pc' = [pc EXCEPT ![r] = next]

\* l <- 1: blocks while the buffer is full
Acquire(r, at, next) ==
    /\ pc[r] = at
    /\ Len(l) < ChanCap
    /\ l' = Append(l, 1)
    /\ pc' = [pc EXCEPT ![r] = next]

\* a return that leaves the token in the channel
ReleaseLeak(r, at, next) ==
    /\ pc[r] = at
    /\ l' = l
    /\ pc' = [pc EXCEPT ![r] = next]

\* a deferred receive that waits for a second token
ReleaseSecondToken(r, at, next) ==
    /\ pc[r] = at
    /\ Len(l) > ChanCap
    /\ l' = Tail(l)
    /\ pc' = [pc EXCEPT ![r] = next]

\* defer func() { <-l }(): blocks while the buffer is empty
Release(r, at, next) ==
    /\ pc[r] = at
    /\ Len(l) > 0
    /\ l' = Tail(l)
    /\ pc' = [pc EXCEPT ![r] = next]

SetAcquire(r) ==
    /\ Acquire(r, "setData_acquire", "setData_assign")
    /\ UNCHANGED <<mainVars, heap, data, call, method, ctype, arg, body, cancelled, newData, ret,
                   status, respBody, result, histVars>>

\* setData that returns without having assigned
SetAssignLost(r) ==
    /\ pc[r] = "setData_assign"
    /\ data' = data
    /\ order' = Append(order, r)
    /\ pc' = [pc EXCEPT ![r] = "setData_release"]
    /\ UNCHANGED <<mainVars, l, heap, call, method, ctype, arg, body, cancelled, newData, ret, status,
                   respBody, result, before>>

\* setData that assigns the zero Timestamp instead of newValue
SetAssignZero(r) ==
    /\ pc[r] = "setData_assign"
    /\ data' = ZeroTimestamp
    /\ order' = Append(order, r)
    /\ pc' = [pc EXCEPT ![r] = "setData_release"]
    /\ UNCHANGED <<mainVars, l, heap, call, method, ctype, arg, body, cancelled, newData, ret, status,
                   respBody, result, before>>

\* data = newValue
SetAssign(r) ==
    /\ pc[r] = "setData_assign"
    /\ data' = newData[r]
    /\ order' = Append(order, r)
    /\ pc' = [pc EXCEPT ![r] = "setData_release"]
    /\ UNCHANGED <<mainVars, l, heap, call, method, ctype, arg, body, cancelled, newData, ret, status,
                   respBody, result, before>>

SetRelease(r) ==
    /\ Release(r, "setData_release", "storeTimestamp_respond")
    /\ UNCHANGED <<mainVars, heap, data, call, method, ctype, arg, body, cancelled, newData, ret,
                   status, respBody, result, histVars>>

\* json.NewEncoder(w).Encode(Response{"OK"})
StoreRespond(r) ==
    /\ pc[r] = "storeTimestamp_respond"
    /\ status' = [status EXCEPT ![r] = StatusOK]
    /\ respBody' = [respBody EXCEPT ![r] = EncodeResponse(StrOK)]
    /\ pc' = [pc EXCEPT ![r] = "client_recv"]
    /\ UNCHANGED <<mainVars, cellVars, call, method, ctype, arg, body, cancelled, newData, ret, result,
                   histVars>>

(***************************************************************************)
(* returnTimestamp and getData.                                             *)
(***************************************************************************)
GetAcquire(r) ==
    /\ Acquire(r, "getData_acquire", "getData_return")
    /\ UNCHANGED <<mainVars, heap, data, call, method, ctype, arg, body, cancelled, newData, ret,
                   status, respBody, result, histVars>>

\* getData that returns the Timestamp the program started with
GetReturnStale(r) ==
    /\ pc[r] = "getData_return"
    /\ ret' = [ret EXCEPT ![r] = InitData]
    /\ order' = Append(order, r)
    /\ pc' = [pc EXCEPT ![r] = "getData_release"]
    /\ UNCHANGED <<mainVars, cellVars, call, method, ctype, arg, body, cancelled, newData, status,
                   respBody, result, before>>

\* getData that puts the cell back to its first value once it has copied it
GetReturnResets(r) ==
    /\ pc[r] = "getData_return"
    /\ ret' = [ret EXCEPT ![r] = data]
    /\ data' = InitData
    /\ order' = Append(order, r)
    /\ pc' = [pc EXCEPT ![r] = "getData_release"]
    /\ UNCHANGED <<mainVars, l, heap, call, method, ctype, arg, body, cancelled,
                   newData, status, respBody, result, before>>

\* return data: the result is copied before the deferred release runs
GetReturn(r) ==
    /\ pc[r] = "getData_return"
    /\ ret' = [ret EXCEPT ![r] = data]
    /\ order' = Append(order, r)
    /\ pc' = [pc EXCEPT ![r] = "getData_release"]
    /\ UNCHANGED <<mainVars, cellVars, call, method, ctype, arg, body, cancelled, newData, status,
                   respBody, result, before>>

GetRelease(r) ==
    /\ Release(r, "getData_release", "returnTimestamp_encode")
    /\ UNCHANGED <<mainVars, heap, data, call, method, ctype, arg, body, cancelled, newData, ret,
                   status, respBody, result, histVars>>

\* returnTimestamp that encodes data as it is when the encoder runs
GetEncodeRereads(r) ==
    /\ pc[r] = "returnTimestamp_encode"
    /\ LET m == TimestampMarshalJSON(data, heap)
       IN  /\ status' = [status EXCEPT ![r] =
                            IF m.panic THEN NoResponse ELSE StatusOK]
           /\ respBody' = [respBody EXCEPT ![r] = m.text]
    /\ pc' = [pc EXCEPT ![r] = "client_recv"]
    /\ UNCHANGED <<mainVars, cellVars, call, method, ctype, arg, body, cancelled,
                   newData, ret, result, histVars>>

\* json.NewEncoder(w).Encode(getData()), after getData has returned
GetEncode(r) ==
    /\ pc[r] = "returnTimestamp_encode"
    /\ LET m == TimestampMarshalJSON(ret[r], heap)
       IN  /\ status' = [status EXCEPT ![r] =
                            IF m.panic THEN NoResponse ELSE StatusOK]
           /\ respBody' = [respBody EXCEPT ![r] = m.text]
    /\ pc' = [pc EXCEPT ![r] = "client_recv"]
    /\ UNCHANGED <<mainVars, cellVars, call, method, ctype, arg, body, cancelled, newData, ret, result,
                   histVars>>

(***************************************************************************)
(* The client functions, from the response on.                              *)
(***************************************************************************)
\* setTimestampCall / setTimestampCallStr: an error unless the status is 200
SetCallResult(st) == [ts |-> <<>>, err |-> st # StatusOK]

\* getTimestampCall: the body is decoded into a TimestampJson whatever the
\* status; an error if the transport or the decoding failed
GetCallResult(st, text) ==
    LET u == UnmarshalTimestampJson(text)
    IN  IF st = NoResponse \/ u.err THEN [ts |-> <<>>, err |-> TRUE]
        ELSE [ts |-> <<u.Timestamp>>, err |-> FALSE]

ClientRecv(r) ==
    /\ pc[r] = "client_recv"
    /\ result' = [result EXCEPT ![r] =
                     IF call[r] = "getTimestampCall"
                     THEN GetCallResult(status[r], respBody[r])
                     ELSE SetCallResult(status[r])]
    /\ pc' = [pc EXCEPT ![r] = "returned"]
    /\ UNCHANGED <<mainVars, cellVars, call, method, ctype, arg, body, cancelled, newData, ret, status,
                   respBody, histVars>>

(***************************************************************************)
(* The environment: the client of a request that waits for the permit,     *)
(* held by another request, goes away and net/http cancels the request's    *)
(* context.  Neither handler reads the context.                             *)
(***************************************************************************)
Waiting(r) ==
    /\ pc[r] \in {"getData_acquire", "setData_acquire"}
    /\ Len(l) = ChanCap

Cancel(r) ==
    /\ Waiting(r)
    /\ ~cancelled[r]
    /\ cancelled' = [cancelled EXCEPT ![r] = TRUE]
    /\ UNCHANGED <<mainVars, cellVars, pc, call, method, ctype, arg, body, newData, ret, status,
                   respBody, result, histVars>>

(***************************************************************************)
(* Specifications.                                                          *)
(***************************************************************************)
Handler(r) ==
    \/ StoreDecode(r)
    \/ SetAcquire(r)
    \/ SetAssign(r)
    \/ SetRelease(r)
    \/ StoreRespond(r)
    \/ GetAcquire(r)
    \/ GetReturn(r)
    \/ GetRelease(r)
    \/ GetEncode(r)
    \/ ClientRecv(r)

\* Concurrent clients: any request may be issued while others are in flight.
Next ==
    \E r \in Reqs :
        \/ \E x \in SmallValues : SetTimestampCall(r, x)
        \/ \E raw \in SmallRaws : SetTimestampCallStr(r, raw)
        \/ GetTimestampCall(r)
        \/ Handler(r)
        \/ Cancel(r)

Spec == Init /\ [][Next]_vars

\* The steps of getData / setData between the acquire and the release
CriticalStep(r) ==
    \/ SetAssign(r)
    \/ SetRelease(r)
    \/ GetReturn(r)
    \/ GetRelease(r)

\* The scheduler keeps running the goroutine that holds the permit: none of
\* its steps up to the release blocks.
Fairness == WF_vars(\E r \in Reqs : CriticalStep(r))

FairSpec == Spec /\ Fairness

\* The steps of getData / setData
CellStep(r) ==
    \/ SetAcquire(r)
    \/ GetAcquire(r)
    \/ CriticalStep(r)

\* Fair scheduling of the goroutines: a caller of getData / setData whose
\* next step stays possible takes it.
CallerFairness == \A r \in Reqs : WF_vars(CellStep(r))

FairCallersSpec == Spec /\ CallerFairness

\* The test client of main_test.go: one call at a time.  The first call
\* fixes the value before (the reference get of TestSetAndGetNegative, or a
\* set as an earlier iteration leaves it), the second is the submission
\* under test, drawn from the whole input domain, the later ones are gets.
Quiet == \A q \in Reqs : pc[q] \in {"idle", "returned"}

TestNext ==
    \E r \in Reqs :
        \/ Quiet /\ r = 1 /\ \E x \in SmallValues : SetTimestampCall(r, x)
        \/ Quiet /\ r = 2 /\ \E x \in Int64Samples : SetTimestampCall(r, x)
        \/ Quiet /\ r = 2 /\ \E raw \in RawTexts : SetTimestampCallStr(r, raw)
        \/ Quiet /\ r # 2 /\ GetTimestampCall(r)
        \/ Handler(r)

TestSpec == Init /\ [][TestNext]_vars

\* Any client of the service: besides the calls of the client functions,
\* requests of any method, content type and body.
Methods      == {"GET", "POST", "PUT"}
ContentTypes == {TextPlain, "application/json"}
HttpBodies   == {<<"{", "}">>, SprintfBody(<<"5">>), SprintfBody(<<"f">>)}

OpenNext ==
    \E r \in Reqs :
        \/ \E x \in SmallValues : SetTimestampCall(r, x)
        \/ GetTimestampCall(r)
        \/ \E m \in Methods, ct \in ContentTypes :
              \E b \in IF m = "GET" THEN {<<>>} ELSE HttpBodies :
                  HttpRequest(r, m, ct, b)
        \/ Handler(r)

OpenSpec == Init /\ [][OpenNext]_vars

(***************************************************************************)
(* func main: it starts handleRequests in a goroutine and, without waiting *)
(* for it, makes its two client calls and prints what the second returned.  *)
(***************************************************************************)
\* the values of time.Now().Unix()
NowSamples == Int64Samples

MainInit ==
    /\ InitServer
    /\ listening = FALSE
    /\ mainPc = "running"

\* handleRequests: http.ListenAndServe binds the port and begins to accept.
\* If it cannot bind it returns, and the server never listens.
ListenAndServe ==
    /\ ~listening
    /\ listening' = TRUE
    /\ UNCHANGED <<cellVars, reqVars, histVars, mainPc, stdout>>

Finished(r) == pc[r] \in {"returned", "refused"}

\* _, _ = setTimestampCall(time.Now().Unix())
MainSetTimestampCall ==
    /\ mainPc = "running"
    /\ \E x \in NowSamples : SetTimestampCall(1, x)

\* ts, _ := getTimestampCall()
MainGetTimestampCall ==
    /\ mainPc = "running"
    /\ Finished(1)
    /\ GetTimestampCall(2)

\* fmt.Println(*ts), then <-c; ts is nil if getTimestampCall returned an
\* error, and its dereference panics
MainPrintln ==
    /\ mainPc = "running"
    /\ Finished(2)
    /\ IF result[2].ts = <<>>
       THEN /\ mainPc' = "panic"
            /\ UNCHANGED stdout
       ELSE /\ mainPc' = "wait_server"
            /\ stdout' = Append(stdout, result[2].ts[1])
    /\ UNCHANGED <<cellVars, reqVars, histVars, listening>>

MainNext ==
    \/ ListenAndServe
    \/ MainSetTimestampCall
    \/ MainGetTimestampCall
    \/ MainPrintln
    \/ \E r \in Reqs : Handler(r)

MainSpec == MainInit /\ [][MainNext]_vars

(***************************************************************************)
(* Vocabulary of the properties.                                            *)
(***************************************************************************)
IsGet(r) ==
    /\ Route(method[r], ctype[r]) = "returnTimestamp"
    /\ pc[r] \notin {"idle", "refused"}

\* r's storeTimestamp decoded its body and called setData
IsWrite(r) ==
    /\ Route(method[r], ctype[r]) = "storeTimestamp"
    /\ newData[r] # ZeroTimestamp

\* between the send l <- 1 and the deferred receive <-l
InCS(r) == pc[r] \in {"setData_assign", "setData_release",
                      "getData_return", "getData_release"}

\* getData has copied data into its result
HasRead(r) == IsGet(r) /\ pc[r] \in {"getData_release", "returnTimestamp_encode",
                                     "client_recv", "returned"}

Accessed(r) == \E i \in 1..Len(order) : order[i] = r
Pos(r) == CHOOSE i \in 1..Len(order) : order[i] = r

\* the seconds a Timestamp denotes
Seconds(t) == UnixOf(heap[t.timestamp][1])

Writes == {w \in Reqs : IsWrite(w)}
Gets   == {g \in Reqs : IsGet(g)}

\* C1: at most one caller of getData / setData is between its acquire and
\* its release.
C1_MutualExclusion == Cardinality({r \in Reqs : InCS(r)}) <= 1

\* a caller is inside while another waits at its acquire
C1_Witness == \E r, q \in Reqs : r # q /\ InCS(r) /\ Waiting(q)

\* the sequences that list every element of S once
RECURSIVE Perms(_)
Perms(S) ==
    IF S = {} THEN {<<>>}
    ELSE UNION {{<<x>> \o p : p \in Perms(S \ {x})} : x \in S}

\* the value a sequential cell returns to the get at position i of lin
RECURSIVE SeqValue(_, _)
SeqValue(lin, i) ==
    IF i = 0 THEN initialUnixTimestamp
    ELSE IF IsWrite(lin[i]) THEN Seconds(newData[lin[i]])
    ELSE SeqValue(lin, i - 1)

\* lin is a sequential history of the cell that explains what has been
\* observed: it keeps the order of the operations that did not overlap and
\* every completed get returned what the sequential cell returns there
Explains(lin) ==
    /\ \A i, j \in 1..Len(lin) : <<lin[j], lin[i]>> \in before => j < i
    /\ \A i \in 1..Len(lin) :
          (IsGet(lin[i]) /\ lin[i] \in CellDone)
             => Seconds(ret[lin[i]]) = SeqValue(lin, i - 1)

Invoked == {r \in Reqs : (IsGet(r) \/ IsWrite(r)) /\ pc[r] # "idle"}

\* C2: every concurrent history of getData / setData is equivalent to a
\* sequential order of the operations that respects the order of the
\* operations that did not overlap (the completed operations, and those of
\* the pending ones that have taken effect).
C2_Serializable ==
    \E P \in SUBSET (Invoked \ CellDone) :
        \E lin \in Perms(CellDone \cup P) : Explains(lin)

\* two writes and a get overlapped and all three have returned
C2_Witness ==
    \E w1, w2 \in Writes : \E g \in Gets :
        /\ w1 # w2 /\ {w1, w2, g} \subseteq CellDone
        /\ before \cap ({w1, w2, g} \X {w1, w2, g}) = {}
        /\ Seconds(newData[w1]) # Seconds(newData[w2])

\* C3: what a getData returned is the value of a setData that had completed
\* before the read, or the initial value; never a partial value.
C3_ReadValidity ==
    \A g \in Reqs : HasRead(g) =>
        \/ ret[g] = InitData
        \/ \E w \in Writes \cap CellDone :
              /\ ret[g] = newData[w]
              /\ Pos(w) < Pos(g)

\* a get returned the value of a completed write, another the initial value
C3_Witness ==
    /\ \E g \in Reqs : \E w \in Writes :
          HasRead(g) /\ ret[g] = newData[w] /\ pc[g] = "returned"
    /\ \E g \in Reqs : HasRead(g) /\ ret[g] = InitData

\* C4: a getData that starts after setData(v) has completed returns v or the
\* value of a setData serialized after it.
C4_WriteVisibility ==
    \A w \in Writes : \A g \in Gets :
        (<<w, g>> \in before /\ HasRead(g)) =>
            \E q \in Writes :
                /\ Accessed(q) /\ ret[g] = newData[q]
                /\ Seconds(ret[g]) = Seconds(newData[q])
                /\ (q = w \/ Pos(q) > Pos(w))

\* a write was serialized before w, and a get that started after w
\* completed has read
C4_Witness ==
    \E w, q \in Writes : \E g \in Gets :
        /\ Accessed(q) /\ Accessed(w) /\ Pos(q) < Pos(w)
        /\ <<w, g>> \in before /\ HasRead(g)

\* C5: every reader observes, through the service, one of the written
\* values or the initial value.
C5_NoLostUpdates ==
    \A g \in Gets : pc[g] = "returned" =>
        /\ ~result[g].err
        /\ result[g].ts \in
              {<<initialUnixTimestamp>>}
                 \cup {<<arg[w]>> : w \in {q \in Writes :
                                             call[q] = "setTimestampCall"}}

\* two overlapping writers of distinct values, and a reader that started
\* after both had completed, has returned
C5_Witness ==
    \E w1, w2 \in Writes : \E g \in Gets :
        /\ arg[w1] # arg[w2]
        /\ <<w1, w2>> \notin before /\ <<w2, w1>> \notin before
        /\ <<w1, g>> \in before /\ <<w2, g>> \in before
        /\ pc[g] = "returned"

\* C6: a successful set of x followed by a get, with no other write in
\* between, yields exactly x: in the cell and through the service.
C6_RoundTrip ==
    \A w, g \in Reqs :
        ( /\ call[w] = "setTimestampCall" /\ pc[w] = "returned"
          /\ ~result[w].err
          /\ IsGet(g) /\ pc[g] = "returned" /\ w < g
          /\ \A q \in Reqs : (w < q /\ q < g) => ~IsWrite(q) )
        => /\ ret[g] = newData[w]
           /\ Seconds(ret[g]) = arg[w]
           /\ result[g] = [ts |-> <<arg[w]>>, err |-> FALSE]

\* the round trip of a value at which sec + unixToInternal wraps, and of
\* the smallest value
C6_Witness ==
    \E w, g \in Reqs :
        /\ call[w] = "setTimestampCall" /\ ~result[w].err
        /\ IsGet(g) /\ pc[g] = "returned" /\ g = w + 1
        /\ arg[w] \in {MinInt64, MaxInt64}
        /\ result[g].ts = <<arg[w]>>

\* C7: while no write has been performed, every get returns 1622366082.
C7_InitialState ==
    \A g \in Gets :
        (pc[g] = "returned" /\ \A w \in Writes : Accessed(w) => Pos(g) < Pos(w))
        => result[g] = [ts |-> <<initialUnixTimestamp>>, err |-> FALSE]

\* two overlapping gets have returned before any write was performed
C7_Witness ==
    \E g1, g2 \in Gets :
        /\ g1 # g2 /\ pc[g1] = "returned" /\ pc[g2] = "returned"
        /\ <<g1, g2>> \notin before /\ <<g2, g1>> \notin before
        /\ \A w \in Writes : ~Accessed(w)

\* the text setTimestampCallStr put into the body of request r
RawOf(r) == SubText(body[r], 6, Len(body[r]))

\* a signed decimal integer: an optional sign, digits without a leading
\* zero, within the int64 range
IntegerText(t) ==
    LET ds == IF Len(t) > 0 /\ t[1] = "-" THEN Tail(t) ELSE t
    IN  /\ Len(ds) > 0
        /\ \A i \in 1..Len(ds) : ds[i] \in DigitSet
        /\ (Len(ds) > 1 => ds[1] # "0")
        /\ ParseInt(t).ok

\* C8: a submit whose payload is malformed is answered with an error, never
\* reaches setData, and the get after it returns what the get before it
\* returned.
C8_RejectionIsolation ==
    \A r \in Reqs :
        ( /\ call[r] = "setTimestampCallStr" /\ pc[r] = "returned"
          /\ ~IntegerText(RawOf(r)) )
        => /\ status[r] # StatusOK /\ result[r].err
           /\ ~IsWrite(r) /\ ~Accessed(r)
           /\ \A g1, g2 \in Gets :
                 ( /\ g1 + 1 = r /\ r + 1 = g2
                   /\ pc[g1] = "returned" /\ pc[g2] = "returned" )
                 => result[g2] = result[g1]

\* C9: whenever the permit is held it is eventually free again.
C9_PermitNonLeakage == (Len(l) = ChanCap) ~> (l = <<>>)

\* the permit is held while a waiter whose context was cancelled waits
C9_Witness ==
    \E r, q \in Reqs : InCS(r) /\ Waiting(q) /\ cancelled[q]

\* C10: a caller whose context was cancelled while it waited for admission
\* abandons the wait: it takes no token and never enters.
C10_AbandonableWait ==
    \A r \in Reqs : cancelled[r] => (~InCS(r) /\ ~Accessed(r))

\* C11: the demonstration run of func main never fails before it prints, it
\* never prints more than one value, and once it waits for the server it has
\* printed exactly one value, the one its getTimestampCall fetched after its
\* setTimestampCall had returned.
C11_DemonstrationRun ==
    /\ mainPc # "panic"
    /\ Len(stdout) <= 1
    /\ mainPc = "wait_server"
          => /\ Len(stdout) = 1
             /\ Finished(1) /\ pc[2] = "returned"
             /\ stdout = result[2].ts

\* C12: a request whose Content-Type is not text/plain is answered by the
\* router: it enters neither handler, never acquires the permit, never reads
\* and never writes the stored value.
C12_ContentTypeRestriction ==
    \A r \in Reqs :
        (pc[r] \notin {"idle", "refused"} /\ ctype[r] # TextPlain)
        => /\ pc[r] \in {"client_recv", "returned"}
           /\ status[r] = StatusNotFound
           /\ ~Accessed(r)
           /\ newData[r] = ZeroTimestamp /\ ret[r] = ZeroTimestamp

\* a submit and a fetch of another content type have been answered while a
\* text/plain request held the permit
C12_Witness ==
    \E r, q, p \in Reqs :
        /\ ctype[r] # TextPlain /\ method[r] = "POST" /\ pc[r] = "returned"
        /\ ctype[q] # TextPlain /\ method[q] = "GET" /\ pc[q] = "returned"
        /\ ctype[p] = TextPlain /\ InCS(p)

AcquirePcs == {"getData_acquire", "setData_acquire"}
Inside == {r \in Reqs : InCS(r)}

\* C13: the channel l starts empty (FREE); it always holds no element or
\* one, and holds one (HELD) exactly when exactly one getData / setData is
\* between its acquire and its release; l changes only by an acquire, FREE to
\* HELD, of the caller that enters, or by a release, HELD to FREE, of the
\* caller that leaves; and no caller passes its acquire while l is HELD.
C13_PermitStateMachine ==
    /\ l = <<>>
    /\ [](/\ l \in {<<>>, <<1>>}
          /\ Len(l) = Cardinality(Inside))
    /\ [][ /\ l' # l =>
              \/ /\ l = <<>> /\ l' = <<1>>
                 /\ \E r \in Reqs : /\ pc[r] \in AcquirePcs /\ InCS(r)'
                                    /\ \A q \in Reqs \ {r} : pc'[q] = pc[q]
              \/ /\ l = <<1>> /\ l' = <<>>
                 /\ \E r \in Reqs : /\ InCS(r) /\ ~InCS(r)'
                                    /\ \A q \in Reqs \ {r} : pc'[q] = pc[q]
           /\ \A r \in Reqs :
                 (pc[r] \in AcquirePcs /\ pc'[r] # pc[r])
                    => (l = <<>> /\ l' = <<1>>) ]_vars

\* the permit is HELD and a caller is blocked at its acquire, after an
\* earlier caller went through FREE -> HELD -> FREE
C13_Witness ==
    \E r, q, p \in Reqs :
        /\ l = <<1>> /\ InCS(r) /\ Waiting(q)
        /\ p \in CellDone /\ Accessed(p)

\* how often r is in the order of the accesses
Accesses(r) == Cardinality({i \in 1..Len(order) : order[i] = r})

\* C14: an access to data (the copy of getData, the assignment of setData)
\* is made by a caller that holds the permit, and leaves it held; the permit
\* is released only by the caller that holds it, after its one access; and a
\* caller whose getData / setData has returned is no longer inside, has made
\* exactly one access, and has left no token behind.
C14_AcquireReleasePairing ==
    /\ [](/\ \A r \in CellDone : ~InCS(r) /\ Accesses(r) = 1
          /\ \A r \in Reqs : Accessed(r) => (InCS(r) \/ r \in CellDone)
          /\ (Inside = {} => l = <<>>))
    /\ [][ /\ order' # order =>
                \E r \in Reqs : /\ order' = Append(order, r)
                                /\ InCS(r) /\ InCS(r)'
                                /\ l = <<1>> /\ l' = l
           /\ Len(l') < Len(l) =>
                \E r \in Reqs : /\ InCS(r) /\ Accesses(r) = 1
                                /\ ~InCS(r)' /\ (r \in CellDone)'
                                /\ order' = order ]_vars

\* a get has returned from getData, its permit released, and a setData that
\* has assigned is about to release
C14_Witness ==
    \E g \in Gets, w \in Writes :
        /\ g \in CellDone /\ Accessed(g)
        /\ pc[w] = "setData_release" /\ Accessed(w)
        /\ Pos(g) < Pos(w)

\* C15: under fair scheduling every caller that has started getData or
\* setData is admitted and returns; a caller inside is never blocked (its
\* release finds the token), and whenever a caller waits either the permit
\* is free or a caller that can go on holds it.
C15_EventualAdmission ==
    /\ [](/\ \A r \in Reqs : InCS(r) => Len(l) > 0
          /\ (\E q \in Reqs : pc[q] \in AcquirePcs)
                => (Len(l) < ChanCap \/ Inside # {}))
    /\ \A r \in Reqs : (pc[r] \in AcquirePcs) ~> (r \in CellDone)

\* two callers are blocked at their acquire while a third is inside
C15_Witness ==
    \E r, q, p \in Reqs :
        /\ q # p /\ InCS(r) /\ ~Accessed(r)
        /\ Waiting(q) /\ Waiting(p)

\* the stored value: the Timestamp in data and the time it points to
Stored == <<data, heap[data.timestamp]>>

\* C16: the stored value changes only in the assignment of a setData whose
\* caller holds the permit, to the value that caller was given; it does not
\* change in any other step (of getData, of returnTimestamp, of a rejected
\* or not yet admitted storeTimestamp, of the decoding of a payload, of a
\* client), and never while the permit is free.
C16_ExclusiveMutation ==
    [][ Stored' # Stored =>
           \E w \in Reqs :
               /\ pc[w] = "setData_assign" /\ pc'[w] = "setData_release"
               /\ \A q \in Reqs \ {w} : pc'[q] = pc[q]
               /\ l = <<1>> /\ l' = l /\ Inside = {w}
               /\ data' = newData[w] ]_vars

\* a submit has been rejected, a fetch has been served, and the stored value
\* is the one an admitted setData assigned
C16_Witness ==
    \E r, w, g \in Reqs :
        /\ status[r] = StatusInternalServerError /\ pc[r] = "returned"
        /\ IsGet(g) /\ pc[g] = "returned"
        /\ IsWrite(w) /\ data = newData[w] /\ data # InitData

\* no setData assigned between the accesses of g1 and g2
NoWriteBetween(g1, g2) ==
    \A w \in Writes :
        Accessed(w) => ~(Pos(g1) < Pos(w) /\ Pos(w) < Pos(g2))

\* C17: no step of a fetch (getData, returnTimestamp, its client) changes
\* the stored value; the getData of a fetch finds the permit free when it is
\* admitted and leaves it free when it returns; and reads with no write
\* between them have returned the same value.
C17_ReadIsPure ==
    /\ [](\A g1, g2 \in Gets :
             ( /\ HasRead(g1) /\ HasRead(g2) /\ Pos(g1) < Pos(g2)
               /\ NoWriteBetween(g1, g2) )
             => ret[g1] = ret[g2])
    /\ [][ \A g \in Reqs :
             (IsGet(g)' /\ pc'[g] # pc[g]) =>
                /\ Stored' = Stored
                /\ pc[g] = "getData_acquire" => l = <<>>
                /\ pc[g] = "getData_return" => (l' = l /\ ret'[g] = data)
                /\ pc[g] = "getData_release" => l' = <<>>
                /\ pc[g] \notin {"getData_acquire", "getData_release"}
                      => l' = l ]_vars

\* after a write two fetches have been served one after the other and the
\* permit is free again
C17_Witness ==
    \E w \in Writes, g1, g2 \in Gets :
        /\ l = <<>> /\ data = newData[w]
        /\ pc[g1] = "returned" /\ pc[g2] = "returned"
        /\ Pos(w) < Pos(g1) /\ Pos(g1) < Pos(g2)
        /\ ret[g1] = data /\ ret[g2] = data

\* the text a payload carries as its timestamp: that of the member
\* "timestamp" of a payload of the form {"timestamp" : text}, none otherwise
Carried(b) ==
    IF /\ Len(b) >= 6
       /\ SubText(b, 1, 6) = <<"{", KeyTimestamp, " ", ":", " ">>
       /\ b[Len(b)] = "}"
    THEN SubText(b, 6, Len(b))
    ELSE <<>>

\* r's request was handed to storeTimestamp, which has decoded its body
Decoded(r) ==
    /\ Route(method[r], ctype[r]) = "storeTimestamp"
    /\ pc[r] \notin {"idle", "refused", "storeTimestamp"}

\* C18: a value that storeTimestamp hands to setData is the signed integer
\* second count that the payload carried; a payload that carries no valid
\* signed integer (whatever its shape, also one that carries no timestamp at
\* all) causes no write and is answered with the rejection.
C18_WriteProvenance ==
    \A r \in Reqs : Decoded(r) =>
        IF IntegerText(Carried(body[r]))
        THEN IsWrite(r)
                => Seconds(newData[r]) = ParseInt(Carried(body[r])).val
        ELSE /\ ~IsWrite(r) /\ ~Accessed(r)
             /\ status[r] = StatusInternalServerError

\* the Timestamps that have been published: stored in data or returned by a
\* getData
Published == {data} \cup {ret[g] : g \in {q \in Reqs : HasRead(q)}}

\* C19: what a fetch has encoded is the value that the cell held at its
\* access, whatever setData did afterwards; a time that has been allocated
\* is never modified; and a write installs a pointer that no published
\* Timestamp holds.
C19_SnapshotStability ==
    /\ [](\A g \in Gets :
             pc[g] \in {"client_recv", "returned"} =>
                /\ status[g] = StatusOK
                /\ respBody[g]
                      = EncodeTimestampJson(SeqValue(order, Pos(g) - 1)))
    /\ [][ /\ \A a \in Addrs : heap[a] # <<>> => heap'[a] = heap[a]
           /\ data' # data =>
                \A t \in Published : t.timestamp # data'.timestamp ]_vars

\* a fetch has encoded the value it read although a setData that assigned
\* another value after the read has returned
C19_Witness ==
    \E g \in Gets, w \in Writes :
        /\ pc[g] \in {"client_recv", "returned"} /\ status[g] = StatusOK
        /\ w \in CellDone /\ Pos(g) < Pos(w) /\ data = newData[w]
        /\ Seconds(ret[g]) # Seconds(data)
        /\ respBody[g] = EncodeTimestampJson(Seconds(ret[g]))

\* t points to an allocated time
NonNil(t) == t.timestamp # Nil /\ heap[t.timestamp] # <<>>

\* C20: the pointer of the stored value is never nil, nor is that of a
\* value storeTimestamp hands to setData or of a value getData returned, so
\* that no encoding dereferences nil.
C20_NonNilPointer ==
    /\ NonNil(data)
    /\ \A r \in Reqs :
          /\ pc[r] \in {"setData_acquire", "setData_assign", "setData_release"}
                => NonNil(newData[r])
          /\ HasRead(r) => NonNil(ret[r])
          /\ status[r] # NoResponse

\* a payload without a timestamp has been accepted and stored, another
\* submit has been rejected, and a fetch has encoded the stored value
C20_Witness ==
    \E r, q, g \in Reqs :
        /\ body[r] = <<"{", "}">> /\ IsWrite(r) /\ data = newData[r]
        /\ status[q] = StatusInternalServerError
        /\ IsGet(g) /\ pc[g] = "returned" /\ ret[g] = data
        /\ status[g] = StatusOK

====
